---- MODULE Spec2Model ----
(***************************************************************************)
(* Model of gas-library-pixela: the endpoint client Pixela_ (Pixela.ts)    *)
(* and its HTTP transport Client_ (Client.ts).                             *)
(*                                                                         *)
(* JavaScript values are tagged records, so that a string, undefined,     *)
(* null, an object and an array are all comparable:                        *)
(*   Str(s), Num(n), Bool(b), Undefined, Null, Obj(props), Arr(items).     *)
(* An object is its property list in insertion order, a sequence of        *)
(* [k |-> key, v |-> value]; text (URLs, JSON text) is a TLA+ string.      *)
(***************************************************************************)
EXTENDS Integers, Sequences, FiniteSets, TLC

\* username, token, client: the fields of the Pixela_ instance; client is a
\*   reference, the index in heap of the Client_ object it points to
\* heap: the Client_ objects constructed so far
\* pc: "idle" between calls, "returned" when a call has just come back
\* call, request, result, fetches: the call that has just come back: its
\*   method and arguments, the request it handed to UrlFetchApp.fetch, what
\*   it returned or threw, and how many times it called UrlFetchApp.fetch
\* response: what the network did with that request
\* log: the construction, the setToken calls and the auth header of every
\*   request, in order
\* held: what a call that is inside a Client_ method holds: the reference to
\*   its Client_ object, the token of the moment it started, and its
\*   arguments
VARIABLES username, token, client, heap, pc, call, request, response, result,
          fetches, log, held

vars == <<username, token, client, heap, pc, call, request, response, result,
          fetches, log, held>>

(***************************************************************************)
(* Bounds                                                                  *)
(***************************************************************************)
\* number of events (setToken calls and requests) one behaviour records
MaxLog == 3

(***************************************************************************)
(* JavaScript values                                                       *)
(***************************************************************************)
Undefined == [t |-> "undefined"]
Null == [t |-> "null"]
Str(s) == [t |-> "string", s |-> s]
Num(n) == [t |-> "number", n |-> n]
Bool(b) == [t |-> "boolean", b |-> b]
Obj(props) == [t |-> "object", props |-> props]
Arr(items) == [t |-> "array", items |-> items]
Prop(k, v) == [k |-> k, v |-> v]

\* obj[key]: the value of the property, undefined when the object has none
GetProp(obj, key) ==
  LET idx == {i \in 1..Len(obj.props) : obj.props[i].k = key}
  IN IF idx = {} THEN Undefined ELSE obj.props[CHOOSE i \in idx : TRUE].v

\* obj[key] = v: replaces the value in place, or appends a new property
SetProp(obj, key, v) ==
  IF \E i \in 1..Len(obj.props) : obj.props[i].k = key
  THEN Obj([i \in 1..Len(obj.props) |->
              IF obj.props[i].k = key THEN Prop(key, v) ELSE obj.props[i]])
  ELSE Obj(Append(obj.props, Prop(key, v)))

\* the keys of an object, and how many properties carry a given key
Keys(obj) == {obj.props[i].k : i \in 1..Len(obj.props)}
Occurrences(obj, key) ==
  Cardinality({i \in 1..Len(obj.props) : obj.props[i].k = key})

(***************************************************************************)
(* Number.prototype.toString and JSON.stringify                            *)
(***************************************************************************)
Digit(d) == SubSeq("0123456789", d + 1, d + 1)

RECURSIVE NatToString(_)
NatToString(n) ==
  IF n < 10 THEN Digit(n) ELSE NatToString(n \div 10) \o Digit(n % 10)

\* quantity.toString() for an integer quantity
NumToString(n) == IF n < 0 THEN "-" \o NatToString(0 - n) ELSE NatToString(n)

\* JSON string escaping of one character and of a text
QuoteChar(c) ==
  IF c = "\"" THEN "\\\"" ELSE IF c = "\\" THEN "\\\\" ELSE c

RECURSIVE Quote(_)
Quote(s) == IF s = "" THEN "" ELSE QuoteChar(Head(s)) \o Quote(Tail(s))

RECURSIVE JSONtext(_)
RECURSIVE JoinProps(_, _)
RECURSIVE JoinItems(_, _)

\* the members of an object: a property whose value is undefined is skipped
JoinProps(props, first) ==
  IF props = <<>> THEN ""
  ELSE IF Head(props).v = Undefined THEN JoinProps(Tail(props), first)
  ELSE (IF first THEN "" ELSE ",")
         \o "\"" \o Quote(Head(props).k) \o "\":" \o JSONtext(Head(props).v)
         \o JoinProps(Tail(props), FALSE)

\* the elements of an array: an undefined element is written as null
JoinItems(items, first) ==
  IF items = <<>> THEN ""
  ELSE (IF first THEN "" ELSE ",")
         \o (IF Head(items) = Undefined THEN "null" ELSE JSONtext(Head(items)))
         \o JoinItems(Tail(items), FALSE)

\* the JSON text of a value other than undefined
JSONtext(v) ==
  CASE v.t = "null" -> "null"
    [] v.t = "boolean" -> (IF v.b THEN "true" ELSE "false")
    [] v.t = "number" -> NumToString(v.n)
    [] v.t = "string" -> "\"" \o Quote(v.s) \o "\""
    [] v.t = "object" -> "{" \o JoinProps(v.props, TRUE) \o "}"
    [] v.t = "array" -> "[" \o JoinItems(v.items, TRUE) \o "]"

\* JSON.stringify replaced by the conversion of an object to a string
JSONstringify_objectObject(v) ==
  IF v = Undefined THEN Undefined
  ELSE IF v.t = "object" THEN Str("[object Object]")
  ELSE Str(JSONtext(v))

\* JSON.stringify(v): a string value, or undefined for undefined
JSONstringify(v) == IF v = Undefined THEN Undefined ELSE Str(JSONtext(v))

(***************************************************************************)
(* JSON.parse, over the bodies the server is modelled to send              *)
(***************************************************************************)
OkBody == Obj(<<Prop("message", Str("ok")), Prop("isSuccess", Bool(TRUE))>>)
NgBody == Obj(<<Prop("message", Str("ng")), Prop("isSuccess", Bool(FALSE))>>)
PixelsBody ==
  Obj(<<Prop("pixels", Arr(<<Str("20210101"), Str("20210102")>>))>>)

\* the values whose JSON text the server sends
JsonValues == {OkBody, NgBody, PixelsBody}

OkText == "{\"message\":\"ok\",\"isSuccess\":true}"
NgText == "{\"message\":\"ng\",\"isSuccess\":false}"
PixelsText == "{\"pixels\":[\"20210101\",\"20210102\"]}"
SvgText == "<svg/>"
ErrorPageText == "<html>Service Unavailable</html>"

\* JSON.parse(text): the value the text denotes, or a SyntaxError
JsonTexts == [v \in JsonValues |-> JSONtext(v)]

JSONparse(text) ==
  IF \E v \in JsonValues : JsonTexts[v] = text
  THEN [ok |-> TRUE, value |-> CHOOSE v \in JsonValues : JsonTexts[v] = text]
  ELSE [ok |-> FALSE, value |-> Undefined]

(***************************************************************************)
(* The fetch primitive of the hosting runtime                              *)
(***************************************************************************)
\* what the network does with one request: no response at all, or a
\* response with a status and a body
NetOutcomes ==
  { [fail |-> TRUE, status |-> 0, text |-> ""],
    [fail |-> FALSE, status |-> 200, text |-> OkText],
    [fail |-> FALSE, status |-> 400, text |-> NgText],
    [fail |-> FALSE, status |-> 200, text |-> PixelsText],
    [fail |-> FALSE, status |-> 200, text |-> SvgText],
    [fail |-> FALSE, status |-> 503, text |-> ErrorPageText] }

\* UrlFetchApp.fetch(url, options): throws when the network fails, and on a
\* non-2xx status unless options.muteHttpExceptions is true
UrlFetchApp_fetch(url, options, net) ==
  IF net.fail THEN [ok |-> FALSE, text |-> ""]
  ELSE IF net.status \notin 200..299
          /\ GetProp(options, "muteHttpExceptions") # Bool(TRUE)
       THEN [ok |-> FALSE, text |-> ""]
       ELSE [ok |-> TRUE, text |-> net.text]

(***************************************************************************)
(* Client_ : the HTTP transport (Client.ts)                                *)
(***************************************************************************)
\* new Client_(token)
Client_new(tok) == [token |-> tok]

\* Client_.get that sends the request twice
Client_get_twice(c, url, net) ==
  LET headers == Obj(<<Prop("X-USER-TOKEN", Str(c.token))>>)
      options == Obj(<<
                Prop("method", Str("get")),
                Prop("headers", headers),
                Prop("muteHttpExceptions", Bool(TRUE)) >>)
      fetched == UrlFetchApp_fetch(url, options, net)
  IN [request |-> [url |-> url, options |-> options, payload |-> Undefined],
      attempts |-> 2, net |-> net, ok |-> fetched.ok,
      text |-> fetched.text]

\* Client_.get: builds the options, calls UrlFetchApp.fetch once and returns
\* response.getContentText()
Client_get(c, url, net) ==
  LET headers == Obj(<<Prop("X-USER-TOKEN", Str(c.token))>>)
      options == Obj(<<
                Prop("method", Str("get")),
                Prop("headers", headers),
                Prop("muteHttpExceptions", Bool(TRUE)) >>)
      fetched == UrlFetchApp_fetch(url, options, net)
  IN [request |-> [url |-> url, options |-> options, payload |-> Undefined],
      attempts |-> 1, net |-> net, ok |-> fetched.ok,
      text |-> fetched.text]

\* Client_.post that calls UrlFetchApp.fetch again when the call failed
Client_post_retries(c, url, payload, net) ==
  LET headers == Obj(<<Prop("X-USER-TOKEN", Str(c.token)),
                      Prop("Content-Type", Str("application/json"))>>)
      options == Obj(<<
                Prop("method", Str("post")),
                Prop("payload", JSONstringify(payload)),
                Prop("headers", headers),
                Prop("muteHttpExceptions", Bool(TRUE)) >>)
      fetched == UrlFetchApp_fetch(url, options, net)
  IN [request |-> [url |-> url, options |-> options, payload |-> payload],
      attempts |-> IF fetched.ok THEN 1 ELSE 2, net |-> net,
      ok |-> fetched.ok, text |-> fetched.text]

\* Client_.post: builds the options, calls UrlFetchApp.fetch once and returns
\* response.getContentText()
Client_post(c, url, payload, net) ==
  LET headers == Obj(<<Prop("X-USER-TOKEN", Str(c.token)),
                      Prop("Content-Type", Str("application/json"))>>)
      options == Obj(<<
                Prop("method", Str("post")),
                Prop("payload", JSONstringify(payload)),
                Prop("headers", headers),
                Prop("muteHttpExceptions", Bool(TRUE)) >>)
      fetched == UrlFetchApp_fetch(url, options, net)
  IN [request |-> [url |-> url, options |-> options, payload |-> payload],
      attempts |-> 1, net |-> net, ok |-> fetched.ok,
      text |-> fetched.text]

\* Client_.put that leaves HTTP exceptions on
Client_put_unmuted(c, url, payload, net) ==
  LET headers == Obj(<<Prop("X-USER-TOKEN", Str(c.token)),
                      Prop("Content-Type", Str("application/json"))>>)
      options == Obj(<<
                Prop("method", Str("put")),
                Prop("payload", JSONstringify(payload)),
                Prop("headers", headers),
                Prop("muteHttpExceptions", Bool(FALSE)) >>)
      fetched == UrlFetchApp_fetch(url, options, net)
  IN [request |-> [url |-> url, options |-> options, payload |-> payload],
      attempts |-> 1, net |-> net, ok |-> fetched.ok,
      text |-> fetched.text]

\* Client_.put: builds the options, calls UrlFetchApp.fetch once and returns
\* response.getContentText()
Client_put(c, url, payload, net) ==
  LET headers == Obj(<<Prop("X-USER-TOKEN", Str(c.token)),
                      Prop("Content-Type", Str("application/json"))>>)
      options == Obj(<<
                Prop("method", Str("put")),
                Prop("payload", JSONstringify(payload)),
                Prop("headers", headers),
                Prop("muteHttpExceptions", Bool(TRUE)) >>)
      fetched == UrlFetchApp_fetch(url, options, net)
  IN [request |-> [url |-> url, options |-> options, payload |-> payload],
      attempts |-> 1, net |-> net, ok |-> fetched.ok,
      text |-> fetched.text]

\* Client_.delete that sends no auth header
Client_delete_noAuth(c, url, net) ==
  LET headers == Obj(<<>>)
      options == Obj(<<
                Prop("method", Str("delete")),
                Prop("headers", headers),
                Prop("muteHttpExceptions", Bool(TRUE)) >>)
      fetched == UrlFetchApp_fetch(url, options, net)
  IN [request |-> [url |-> url, options |-> options, payload |-> Undefined],
      attempts |-> 1, net |-> net, ok |-> fetched.ok,
      text |-> fetched.text]

\* Client_.delete: builds the options, calls UrlFetchApp.fetch once and returns
\* response.getContentText()
Client_delete(c, url, net) ==
  LET headers == Obj(<<Prop("X-USER-TOKEN", Str(c.token))>>)
      options == Obj(<<
                Prop("method", Str("delete")),
                Prop("headers", headers),
                Prop("muteHttpExceptions", Bool(TRUE)) >>)
      fetched == UrlFetchApp_fetch(url, options, net)
  IN [request |-> [url |-> url, options |-> options, payload |-> Undefined],
      attempts |-> 1, net |-> net, ok |-> fetched.ok,
      text |-> fetched.text]

(***************************************************************************)
(* Pixela_ : URL generators and buildQuery (Pixela.ts)                     *)
(***************************************************************************)
baseURL == "https://pixe.la"
apiVersion == "v1"

generateUserURL == baseURL \o "/" \o apiVersion \o "/users"

\* generateUserIDURL that appends the token
generateUserIDURL_withToken ==
  baseURL \o "/" \o apiVersion \o "/users/" \o username \o "/" \o token

generateUserIDURL == baseURL \o "/" \o apiVersion \o "/users/" \o username

generateGraphsURL ==
  baseURL \o "/" \o apiVersion \o "/users/" \o username \o "/graphs"

generateGraphIDURL(graphID) ==
  baseURL \o "/" \o apiVersion \o "/users/" \o username \o "/graphs/"
    \o graphID

\* generateDetailURL with its two arguments in the other order
generateDetailURL_swapped(graphID, detailType) ==
  baseURL \o "/" \o apiVersion \o "/users/" \o username \o "/graphs/"
    \o detailType \o "/" \o graphID

generateDetailURL(graphID, detailType) ==
  baseURL \o "/" \o apiVersion \o "/users/" \o username \o "/graphs/"
    \o graphID \o "/" \o detailType

generateWebhookURL ==
  baseURL \o "/" \o apiVersion \o "/users/" \o username \o "/webhooks"

\* generateWebhookDetailURL that leaves the hash out
generateWebhookDetailURL_noHash(webhookHash) ==
  baseURL \o "/" \o apiVersion \o "/users/" \o username \o "/webhooks"

generateWebhookDetailURL(webhookHash) ==
  baseURL \o "/" \o apiVersion \o "/users/" \o username \o "/webhooks/"
    \o webhookHash

\* key + "=" + parameters[key] for every property that is neither undefined
\* nor null (the loose comparison != undefined), in property order
RECURSIVE QueryParams(_)
QueryParams(props) ==
  IF props = <<>> THEN <<>>
  ELSE IF Head(props).v \notin {Undefined, Null}
       THEN <<Head(props).k \o "=" \o Head(props).v.s>>
              \o QueryParams(Tail(props))
       ELSE QueryParams(Tail(props))

\* params.join("&")
RECURSIVE Join(_, _)
Join(params, sep) ==
  IF params = <<>> THEN ""
  ELSE IF Len(params) = 1 THEN Head(params)
  ELSE Head(params) \o sep \o Join(Tail(params), sep)

\* buildQuery that appends the "?" whatever the number of parameters
buildQuery_alwaysMark(url, parameters) ==
  url \o "?" \o Join(QueryParams(parameters.props), "&")

buildQuery(url, parameters) ==
  LET params == QueryParams(parameters.props)
  IN IF Len(params) = 0 THEN url ELSE url \o "?" \o Join(params, "&")

(***************************************************************************)
(* Inputs                                                                  *)
(***************************************************************************)
Usernames == {"alice", "bob"}
Tokens == {"tok1", "tok2"}
GraphIDs == {"g1", "g2"}
Dates == {"20210101"}
Hashes == {"h1"}
Quantities == {0, 12}
\* an optional string parameter: omitted, null, empty, or with reserved
\* characters
OptStrings == {Undefined, Null, Str(""), Str("a&b=c")}
\* an optional createGraph parameter
OptFields == {Undefined, Null, Str("UTC")}
\* an optional optionalData parameter
OptData == {Undefined, Null, Obj(<<>>), Obj(<<Prop("memo", Str("a\"b"))>>)}
\* updateGraph payloads
UpdatePayloads ==
  { Obj(<<Prop("graphName", Str("x")), Prop("bogus", Str("y"))>>),
    Obj(<<Prop("color", Str("sora")), Prop("unit", Undefined)>>),
    Obj(<<Prop("selfSufficient", Str("none")), Prop("timezone", Str("UTC")),
          Prop("type", Str("int"))>>),
    Obj(<<>>) }

(***************************************************************************)
(* Pixela_ : construction, setToken and the API methods (Pixela.ts)        *)
(***************************************************************************)
NoHeld ==
  [op |-> "none", c |-> 0, startToken |-> "", verb |-> "", url |-> "",
   payload |-> Undefined]
NoCall == [op |-> "none", args |-> [none |-> TRUE]]
NoResponse == [fail |-> FALSE, status |-> 0, text |-> ""]
NoRequest == [url |-> "", options |-> Obj(<<>>), payload |-> Undefined]
Return(v) == [kind |-> "return", value |-> v, error |-> ""]
Throw(e) == [kind |-> "throw", value |-> Undefined, error |-> e]

\* the X-USER-TOKEN header of a request
AuthHeader(req) == GetProp(GetProp(req.options, "headers"), "X-USER-TOKEN")

\* new Pixela_(username, token)
Init ==
  /\ username \in Usernames
  /\ token \in Tokens
  /\ heap = <<Client_new(token)>>
  /\ client = 1
  /\ held = NoHeld
  /\ pc = "idle"
  /\ call = NoCall
  /\ request = NoRequest
  /\ response = NoResponse
  /\ result = Return(Undefined)
  /\ fetches = 0
  /\ log = <<[ev |-> "constructor", token |-> Str(token), user |-> username]>>

\* setToken that installs a new transport and keeps the token it had stored
setToken_keepsToken(tok) ==
  /\ pc = "idle"
  /\ Len(log) <= MaxLog
  /\ pc' = "returned"
  /\ heap' = Append(heap, Client_new(tok))
  /\ client' = Len(heap) + 1
  /\ call' = [op |-> "setToken", args |-> [token |-> tok]]
  /\ request' = NoRequest
  /\ response' = NoResponse
  /\ result' = Return(Undefined)
  /\ fetches' = 0
  /\ log' = Append(log, [ev |-> "setToken", token |-> Str(tok), user |-> ""])
  /\ UNCHANGED <<username, token, held>>

\* setToken that stores the token and keeps the transport it had
setToken_keepsClient(tok) ==
  /\ pc = "idle"
  /\ Len(log) <= MaxLog
  /\ pc' = "returned"
  /\ token' = tok
  /\ call' = [op |-> "setToken", args |-> [token |-> tok]]
  /\ request' = NoRequest
  /\ response' = NoResponse
  /\ result' = Return(Undefined)
  /\ fetches' = 0
  /\ log' = Append(log, [ev |-> "setToken", token |-> Str(tok), user |-> ""])
  /\ UNCHANGED <<username, client, heap, held>>

\* this.token = token; this.client.token = token: the transport is kept
\* and its token overwritten
installToken_inPlace(tok) ==
  /\ token' = tok
  /\ heap' = [heap EXCEPT ![client] = Client_new(tok)]
  /\ client' = client

\* this.token = token; this.client = new Client_(token);
installToken(tok) ==
  /\ token' = tok
  /\ heap' = Append(heap, Client_new(tok))
  /\ client' = Len(heap) + 1

setToken(tok) ==
  /\ pc = "idle"
  /\ Len(log) <= MaxLog
  /\ pc' = "returned"
  /\ installToken(tok)
  /\ call' = [op |-> "setToken", args |-> [token |-> tok]]
  /\ request' = NoRequest
  /\ response' = NoResponse
  /\ result' = Return(Undefined)
  /\ fetches' = 0
  /\ log' = Append(log, [ev |-> "setToken", token |-> Str(tok), user |-> ""])
  /\ UNCHANGED <<username, held>>

\* the same, with the decoded body wrapped in an object of the client
ParseAndReturn_wraps(op, args, exchange) ==
  /\ pc = "idle"
  /\ Len(log) <= MaxLog
  /\ pc' = "returned"
  /\ call' = [op |-> op, args |-> args]
  /\ request' = exchange.request
  /\ response' = exchange.net
  /\ fetches' = exchange.attempts
  /\ result' = IF ~exchange.ok THEN Throw("fetch")
               ELSE IF JSONparse(exchange.text).ok
                    THEN Return(Obj(<<Prop("data",
                                           JSONparse(exchange.text).value)>>))
                    ELSE Throw("SyntaxError")
  /\ log' = Append(log, [ev |-> "request",
                         token |-> AuthHeader(exchange.request),
                         user |-> ""])
  /\ UNCHANGED <<username, token, client, heap, held>>

\* the same, with the failure of JSON.parse caught and undefined returned
ParseAndReturn_swallows(op, args, exchange) ==
  /\ pc = "idle"
  /\ Len(log) <= MaxLog
  /\ pc' = "returned"
  /\ call' = [op |-> op, args |-> args]
  /\ request' = exchange.request
  /\ response' = exchange.net
  /\ fetches' = exchange.attempts
  /\ result' = IF ~exchange.ok THEN Throw("fetch")
               ELSE IF JSONparse(exchange.text).ok
                    THEN Return(JSONparse(exchange.text).value)
                    ELSE Return(Undefined)
  /\ log' = Append(log, [ev |-> "request",
                         token |-> AuthHeader(exchange.request),
                         user |-> ""])
  /\ UNCHANGED <<username, token, client, heap, held>>

\* const responseBodyText = this.client.<verb>(...);
\* const response = JSON.parse(responseBodyText); return response;
\* a throw of the transport or of JSON.parse leaves the method
ParseAndReturn(op, args, exchange) ==
  /\ pc = "idle"
  /\ Len(log) <= MaxLog
  /\ pc' = "returned"
  /\ call' = [op |-> op, args |-> args]
  /\ request' = exchange.request
  /\ response' = exchange.net
  /\ fetches' = exchange.attempts
  /\ result' = IF ~exchange.ok THEN Throw("fetch")
               ELSE IF JSONparse(exchange.text).ok
                    THEN Return(JSONparse(exchange.text).value)
                    ELSE Throw("SyntaxError")
  /\ log' = Append(log, [ev |-> "request",
                         token |-> AuthHeader(exchange.request),
                         user |-> ""])
  /\ UNCHANGED <<username, token, client, heap, held>>

\* getSvg's return, with the body decoded like the other methods
ReturnText_parses(op, args, exchange) ==
  /\ pc = "idle"
  /\ Len(log) <= MaxLog
  /\ pc' = "returned"
  /\ call' = [op |-> op, args |-> args]
  /\ request' = exchange.request
  /\ response' = exchange.net
  /\ fetches' = exchange.attempts
  /\ result' = IF ~exchange.ok THEN Throw("fetch")
               ELSE IF JSONparse(exchange.text).ok
                    THEN Return(JSONparse(exchange.text).value)
                    ELSE Throw("SyntaxError")
  /\ log' = Append(log, [ev |-> "request",
                         token |-> AuthHeader(exchange.request),
                         user |-> ""])
  /\ UNCHANGED <<username, token, client, heap, held>>

\* const responseBodyText = this.client.get(...); return responseBodyText;
ReturnText(op, args, exchange) ==
  /\ pc = "idle"
  /\ Len(log) <= MaxLog
  /\ pc' = "returned"
  /\ call' = [op |-> op, args |-> args]
  /\ request' = exchange.request
  /\ response' = exchange.net
  /\ fetches' = exchange.attempts
  /\ result' = IF ~exchange.ok THEN Throw("fetch")
               ELSE Return(Str(exchange.text))
  /\ log' = Append(log, [ev |-> "request",
                         token |-> AuthHeader(exchange.request),
                         user |-> ""])
  /\ UNCHANGED <<username, token, client, heap, held>>

\* the caller takes what the call returned or threw and goes on
resume ==
  /\ pc = "returned"
  /\ pc' = "idle"
  /\ call' = NoCall
  /\ request' = NoRequest
  /\ response' = NoResponse
  /\ result' = Return(Undefined)
  /\ fetches' = 0
  /\ held' = NoHeld
  /\ UNCHANGED <<username, token, client, heap, log>>

createUser(agreeTermsOfService, notMinor, net) ==
  LET requestURL == generateUserURL
      payload == Obj(<<Prop("username", Str(username)),
                       Prop("token", Str(token)),
                       Prop("agreeTermsOfService", Str(agreeTermsOfService)),
                       Prop("notMinor", Str(notMinor))>>)
  IN ParseAndReturn("createUser",
       [agreeTermsOfService |-> agreeTermsOfService, notMinor |-> notMinor],
       Client_post(heap[client], requestURL, payload, net))

\* updateUser that installs the new token when the server accepted it
updateUser_storesNewToken(newToken, net) ==
  LET requestURL == generateUserIDURL
      payload == Obj(<<Prop("newToken", Str(newToken))>>)
      exchange == Client_put(heap[client], requestURL, payload, net)
      accepted == /\ exchange.ok
                  /\ JSONparse(exchange.text).ok
                  /\ GetProp(JSONparse(exchange.text).value, "isSuccess")
                       = Bool(TRUE)
  IN /\ pc = "idle"
     /\ Len(log) <= MaxLog
     /\ pc' = "returned"
     /\ call' = [op |-> "updateUser", args |-> [newToken |-> newToken]]
     /\ request' = exchange.request
     /\ response' = exchange.net
     /\ fetches' = exchange.attempts
     /\ result' = IF ~exchange.ok THEN Throw("fetch")
                  ELSE IF JSONparse(exchange.text).ok
                       THEN Return(JSONparse(exchange.text).value)
                       ELSE Throw("SyntaxError")
     /\ log' = Append(log, [ev |-> "request",
                            token |-> AuthHeader(exchange.request),
                            user |-> ""])
     /\ IF accepted THEN installToken(newToken)
        ELSE UNCHANGED <<token, client, heap>>
     /\ UNCHANGED <<username, held>>

updateUser(newToken, net) ==
  LET requestURL == generateUserIDURL
      payload == Obj(<<Prop("newToken", Str(newToken))>>)
  IN ParseAndReturn("updateUser", [newToken |-> newToken],
       Client_put(heap[client], requestURL, payload, net))

deleteUser(net) ==
  LET requestURL == generateUserIDURL
  IN ParseAndReturn("deleteUser", [none |-> TRUE],
       Client_delete(heap[client], requestURL, net))

\* createGraph that puts timezone in the payload literal
createGraph_timezoneInLiteral(graphID, graphName, unit, type, color, timezone, selfSufficient, net) ==
  LET requestURL == generateGraphsURL
      payload0 == Obj(<<Prop("id", Str(graphID)),
                        Prop("name", Str(graphName)),
                        Prop("unit", Str(unit)),
                        Prop("type", Str(type)),
                        Prop("color", Str(color)),
                        Prop("timezone", timezone)>>)
      payload == IF selfSufficient # Undefined
                 THEN SetProp(payload0, "selfSufficient", selfSufficient)
                 ELSE payload0
  IN ParseAndReturn("createGraph",
       [graphID |-> graphID, graphName |-> graphName, unit |-> unit,
        type |-> type, color |-> color, timezone |-> timezone,
        selfSufficient |-> selfSufficient],
       Client_post(heap[client], requestURL, payload, net))

createGraph(graphID, graphName, unit, type, color, timezone, selfSufficient, net) ==
  LET requestURL == generateGraphsURL
      payload0 == Obj(<<Prop("id", Str(graphID)),
                        Prop("name", Str(graphName)),
                        Prop("unit", Str(unit)),
                        Prop("type", Str(type)),
                        Prop("color", Str(color))>>)
      payload1 == IF timezone # Undefined
                  THEN SetProp(payload0, "timezone", timezone)
                  ELSE payload0
      payload == IF selfSufficient # Undefined
                 THEN SetProp(payload1, "selfSufficient", selfSufficient)
                 ELSE payload1
  IN ParseAndReturn("createGraph",
       [graphID |-> graphID, graphName |-> graphName, unit |-> unit,
        type |-> type, color |-> color, timezone |-> timezone,
        selfSufficient |-> selfSufficient],
       Client_post(heap[client], requestURL, payload, net))

getGraph(net) ==
  LET requestURL == generateGraphsURL
  IN ParseAndReturn("getGraph", [none |-> TRUE],
       Client_get(heap[client], requestURL, net))

getSvg(graphID, dateStr, mode, net) ==
  LET requestURL0 == generateGraphIDURL(graphID)
      requestURL == buildQuery(requestURL0,
                      Obj(<<Prop("date", dateStr), Prop("mode", mode)>>))
  IN ReturnText("getSvg",
       [graphID |-> graphID, dateStr |-> dateStr, mode |-> mode],
       Client_get(heap[client], requestURL, net))

\* elements.forEach: copies payload[elem] when it is not undefined
RECURSIVE CopyElements(_, _, _)
CopyElements(elements, payload, updatePayload) ==
  IF elements = <<>> THEN updatePayload
  ELSE CopyElements(Tail(elements), payload,
         IF GetProp(payload, Head(elements)) # Undefined
         THEN SetProp(updatePayload, Head(elements),
                      GetProp(payload, Head(elements)))
         ELSE updatePayload)

updateGraph(graphID, payload, net) ==
  LET requestURL == generateGraphIDURL(graphID)
      elements == <<"graphName", "unit", "type", "color", "timezone",
                    "selfSufficient">>
      updatePayload == CopyElements(elements, payload, Obj(<<>>))
  IN ParseAndReturn("updateGraph", [graphID |-> graphID, payload |-> payload],
       Client_put(heap[client], requestURL, payload, net))

deleteGraph(graphID, net) ==
  LET requestURL == generateGraphIDURL(graphID)
  IN ParseAndReturn("deleteGraph", [graphID |-> graphID],
       Client_delete(heap[client], requestURL, net))

getGraphPixelsDate(graphID, fromDateStr, toDateStr, net) ==
  LET requestURL0 == generateDetailURL(graphID, "pixels")
      requestURL == buildQuery(requestURL0,
                      Obj(<<Prop("from", fromDateStr),
                            Prop("to", toDateStr)>>))
  IN ParseAndReturn("getGraphPixelsDate",
       [graphID |-> graphID, fromDateStr |-> fromDateStr,
        toDateStr |-> toDateStr],
       Client_get(heap[client], requestURL, net))

createPixel(graphID, dateStr, quantity, optionalData, net) ==
  LET requestURL == generateGraphIDURL(graphID)
      payload0 == Obj(<<Prop("date", Str(dateStr)),
                        Prop("quantity", Str(NumToString(quantity)))>>)
      payload == IF optionalData # Undefined
                 THEN SetProp(payload0, "optionalData",
                              JSONstringify(optionalData))
                 ELSE payload0
  IN ParseAndReturn("createPixel",
       [graphID |-> graphID, dateStr |-> dateStr, quantity |-> quantity,
        optionalData |-> optionalData],
       Client_post(heap[client], requestURL, payload, net))

getPixel(graphID, dateStr, net) ==
  LET requestURL == generateDetailURL(graphID, dateStr)
  IN ParseAndReturn("getPixel", [graphID |-> graphID, dateStr |-> dateStr],
       Client_get(heap[client], requestURL, net))

updatePixel(graphID, dateStr, quantity, optionalData, net) ==
  LET requestURL == generateDetailURL(graphID, dateStr)
      payload0 == Obj(<<Prop("quantity", Str(NumToString(quantity)))>>)
      payload == IF optionalData # Undefined
                 THEN SetProp(payload0, "optionalData",
                              JSONstringify(optionalData))
                 ELSE payload0
  IN ParseAndReturn("updatePixel",
       [graphID |-> graphID, dateStr |-> dateStr, quantity |-> quantity,
        optionalData |-> optionalData],
       Client_put(heap[client], requestURL, payload, net))

incPixel(graphID, net) ==
  LET requestURL == generateDetailURL(graphID, "increment")
  IN ParseAndReturn("incPixel", [graphID |-> graphID],
       Client_put(heap[client], requestURL, Undefined, net))

decPixel(graphID, net) ==
  LET requestURL == generateDetailURL(graphID, "decrement")
  IN ParseAndReturn("decPixel", [graphID |-> graphID],
       Client_put(heap[client], requestURL, Undefined, net))

deletePixel(graphID, dateStr, net) ==
  LET requestURL == generateDetailURL(graphID, dateStr)
  IN ParseAndReturn("deletePixel", [graphID |-> graphID, dateStr |-> dateStr],
       Client_delete(heap[client], requestURL, net))

createWebhook(graphID, webhookType, net) ==
  LET requestURL == generateWebhookURL
      payload == Obj(<<Prop("graphID", Str(graphID)),
                       Prop("type", Str(webhookType))>>)
  IN ParseAndReturn("createWebhook",
       [graphID |-> graphID, webhookType |-> webhookType],
       Client_post(heap[client], requestURL, payload, net))

getWebhook(net) ==
  LET requestURL == generateWebhookURL
  IN ParseAndReturn("getWebhook", [none |-> TRUE],
       Client_get(heap[client], requestURL, net))

\* invokeWebhook that posts an empty object
invokeWebhook_emptyObject(webhookHash, net) ==
  LET requestURL == generateWebhookDetailURL(webhookHash)
  IN ParseAndReturn("invokeWebhook", [webhookHash |-> webhookHash],
       Client_post(heap[client], requestURL, Obj(<<>>), net))

invokeWebhook(webhookHash, net) ==
  LET requestURL == generateWebhookDetailURL(webhookHash)
  IN ParseAndReturn("invokeWebhook", [webhookHash |-> webhookHash],
       Client_post(heap[client], requestURL, Undefined, net))

deleteWebhook(webhookHash, net) ==
  LET requestURL == generateWebhookDetailURL(webhookHash)
  IN ParseAndReturn("deleteWebhook", [webhookHash |-> webhookHash],
       Client_delete(heap[client], requestURL, net))

Next ==
  \/ \E tok \in Tokens : setToken(tok)
  \/ \E net \in NetOutcomes : createUser("yes", "yes", net)
  \/ \E tok \in Tokens, net \in NetOutcomes : updateUser(tok, net)
  \/ \E net \in NetOutcomes : deleteUser(net)
  \/ \E g \in GraphIDs, tz \in OptFields, ss \in OptFields,
        net \in NetOutcomes :
       createGraph(g, "name", "commit", "int", "shibafu", tz, ss, net)
  \/ \E net \in NetOutcomes : getGraph(net)
  \/ \E g \in GraphIDs, d \in OptStrings, m \in OptStrings,
        net \in NetOutcomes : getSvg(g, d, m, net)
  \/ \E g \in GraphIDs, p \in UpdatePayloads, net \in NetOutcomes :
       updateGraph(g, p, net)
  \/ \E g \in GraphIDs, net \in NetOutcomes : deleteGraph(g, net)
  \/ \E g \in GraphIDs, f \in OptStrings, t \in OptStrings,
        net \in NetOutcomes : getGraphPixelsDate(g, f, t, net)
  \/ \E g \in GraphIDs, d \in Dates, q \in Quantities, o \in OptData,
        net \in NetOutcomes : createPixel(g, d, q, o, net)
  \/ \E g \in GraphIDs, d \in Dates, net \in NetOutcomes : getPixel(g, d, net)
  \/ \E g \in GraphIDs, d \in Dates, q \in Quantities, o \in OptData,
        net \in NetOutcomes : updatePixel(g, d, q, o, net)
  \/ \E g \in GraphIDs, net \in NetOutcomes : incPixel(g, net)
  \/ \E g \in GraphIDs, net \in NetOutcomes : decPixel(g, net)
  \/ \E g \in GraphIDs, d \in Dates, net \in NetOutcomes :
       deletePixel(g, d, net)
  \/ \E g \in GraphIDs, net \in NetOutcomes : createWebhook(g, "increment", net)
  \/ \E net \in NetOutcomes : getWebhook(net)
  \/ \E h \in Hashes, net \in NetOutcomes : invokeWebhook(h, net)
  \/ \E h \in Hashes, net \in NetOutcomes : deleteWebhook(h, net)
  \/ resume

Spec == Init /\ [][Next]_vars

(***************************************************************************)
(* A call taken step by step, with setToken let in between the steps: the  *)
(* method evaluates this.client and enters the Client_ method; the Client_ *)
(* method builds headers and options; UrlFetchApp.fetch returns.           *)
(***************************************************************************)
\* the request a Client_ method builds; it is the same whatever the network
\* does afterwards
TransportRequest(c, verb, url, payload) ==
  LET net == CHOOSE n \in NetOutcomes : TRUE
  IN CASE verb = "get" -> Client_get(c, url, net).request
       [] verb = "post" -> Client_post(c, url, payload, net).request
       [] verb = "put" -> Client_put(c, url, payload, net).request
       [] verb = "delete" -> Client_delete(c, url, net).request

\* the method has its URL and payload and calls this.client.<verb>(...)
Enter(op, args, verb, url, payload) ==
  /\ pc = "idle"
  /\ Len(log) <= MaxLog
  /\ pc' = "entered"
  /\ call' = [op |-> op, args |-> args]
  /\ held' = [op |-> op, c |-> client, startToken |-> token, verb |-> verb,
              url |-> url, payload |-> payload]
  /\ UNCHANGED <<username, token, client, heap, request, response, result,
                 fetches, log>>

getGraph_enter == Enter("getGraph", [none |-> TRUE], "get", generateGraphsURL, Undefined)

deleteUser_enter == Enter("deleteUser", [none |-> TRUE], "delete", generateUserIDURL, Undefined)

updateUser_enter(newToken) ==
  Enter("updateUser", [newToken |-> newToken], "put", generateUserIDURL,
        Obj(<<Prop("newToken", Str(newToken))>>))

createWebhook_enter(graphID, webhookType) ==
  Enter("createWebhook", [graphID |-> graphID, webhookType |-> webhookType],
        "post", generateWebhookURL,
        Obj(<<Prop("graphID", Str(graphID)), Prop("type", Str(webhookType))>>))

\* the Client_ method builds its headers from this.token and its options
buildOptions ==
  /\ pc = "entered"
  /\ pc' = "fetching"
  /\ request' = TransportRequest(heap[held.c], held.verb, held.url,
                                 held.payload)
  /\ UNCHANGED <<username, token, client, heap, call, response, result,
                 fetches, log, held>>

\* setToken runs while the call is inside the Client_ method
setTokenInFlight(tok) ==
  /\ pc \in {"entered", "fetching"}
  /\ Len(log) < MaxLog
  /\ installToken(tok)
  /\ log' = Append(log, [ev |-> "setToken", token |-> Str(tok), user |-> ""])
  /\ UNCHANGED <<username, pc, call, request, response, result, fetches,
                 held>>

\* UrlFetchApp.fetch returns or throws, and the method decodes and returns
fetchReturns(net) ==
  LET fetched == UrlFetchApp_fetch(request.url, request.options, net)
  IN /\ pc = "fetching"
     /\ pc' = "returned"
     /\ response' = net
     /\ fetches' = 1
     /\ result' = IF ~fetched.ok THEN Throw("fetch")
                  ELSE IF JSONparse(fetched.text).ok
                       THEN Return(JSONparse(fetched.text).value)
                       ELSE Throw("SyntaxError")
     /\ log' = Append(log, [ev |-> "request", token |-> AuthHeader(request),
                            user |-> ""])
     /\ UNCHANGED <<username, token, client, heap, call, request, held>>

NextInFlight ==
  \/ \E tok \in Tokens : setToken(tok)
  \/ resume
  \/ getGraph_enter
  \/ deleteUser_enter
  \/ \E tok \in Tokens : updateUser_enter(tok)
  \/ \E g \in GraphIDs : createWebhook_enter(g, "increment")
  \/ buildOptions
  \/ \E tok \in Tokens : setTokenInFlight(tok)
  \/ \E net \in NetOutcomes : fetchReturns(net)

SpecInFlight == Init /\ [][NextInFlight]_vars

(***************************************************************************)
(* Properties                                                              *)
(***************************************************************************)
\* a call of the method op has just come back
Returned(op) == pc = "returned" /\ call.op = op

\* the method option of a request
Method(req) == GetProp(req.options, "method")

\* the text of the body of a request
Body(req) == GetProp(req.options, "payload")

AllowList == {"graphName", "unit", "type", "color", "timezone",
              "selfSufficient"}

\* C1: the payload updateGraph hands to the transport has no key outside the
\* allow-list, and every allow-listed key of the caller's payload with a
\* defined value is in it with that value.
C1_UpdateGraphForwardsAllowListOnly ==
  Returned("updateGraph") =>
    /\ Keys(request.payload) \subseteq AllowList
    /\ \A k \in AllowList :
         GetProp(call.args.payload, k) # Undefined =>
           GetProp(request.payload, k) = GetProp(call.args.payload, k)

\* the token in force at position i of the log: that of the latest
\* construction or setToken before i
TokenInForce(i) ==
  LET j == CHOOSE j \in 1..(i - 1) :
             /\ log[j].ev # "request"
             /\ \A k \in (j + 1)..(i - 1) : log[k].ev = "request"
  IN log[j].token

\* C2: every request carries as X-USER-TOKEN the token of the latest setToken
\* before it, or the construction token when there was no setToken before it.
C2_RequestsCarryLatestToken ==
  \A i \in 1..Len(log) :
    log[i].ev = "request" => log[i].token = TokenInForce(i)

\* a request was issued after a setToken that changed the token
C2_Witness ==
  /\ Len(log) >= 3
  /\ log[2].ev = "setToken"
  /\ log[2].token # log[1].token
  /\ log[3].ev = "request"

\* key is absent from the object when v is undefined, and occurs once with
\* the value expected otherwise
OptionalKey(obj, key, v, expected) ==
  IF v = Undefined THEN Occurrences(obj, key) = 0
  ELSE Occurrences(obj, key) = 1 /\ GetProp(obj, key) = expected

\* key occurs once in the object, with the value v
RequiredKey(obj, key, v) ==
  Occurrences(obj, key) = 1 /\ GetProp(obj, key) = v

\* the JSON text of the optionalData values of OptData
EncodedData(o) ==
  IF o = Null THEN Str("null")
  ELSE IF o = Obj(<<>>) THEN Str("{}")
  ELSE Str("{\"memo\":\"a\\\"b\"}")

\* the decimal text of the quantities of Quantities
QuantityText(q) == IF q = 0 THEN Str("0") ELSE Str("12")

\* C3: the payloads of createGraph, createPixel and updatePixel have the
\* required keys, lack the key of an omitted optional parameter, and have
\* the key of a supplied one exactly once, with the supplied value
\* (optionalData: with the JSON text of the supplied object).
C3_OptionalKeysOnlyWhenSupplied ==
  /\ Returned("createGraph") =>
       /\ OptionalKey(request.payload, "timezone", call.args.timezone,
                      call.args.timezone)
       /\ OptionalKey(request.payload, "selfSufficient",
                      call.args.selfSufficient, call.args.selfSufficient)
       /\ RequiredKey(request.payload, "id", Str(call.args.graphID))
       /\ RequiredKey(request.payload, "name", Str(call.args.graphName))
       /\ RequiredKey(request.payload, "unit", Str(call.args.unit))
       /\ RequiredKey(request.payload, "type", Str(call.args.type))
       /\ RequiredKey(request.payload, "color", Str(call.args.color))
  /\ Returned("createPixel") =>
       /\ OptionalKey(request.payload, "optionalData", call.args.optionalData,
                      EncodedData(call.args.optionalData))
       /\ RequiredKey(request.payload, "date", Str(call.args.dateStr))
       /\ RequiredKey(request.payload, "quantity",
                      QuantityText(call.args.quantity))
  /\ Returned("updatePixel") =>
       /\ OptionalKey(request.payload, "optionalData", call.args.optionalData,
                      EncodedData(call.args.optionalData))
       /\ RequiredKey(request.payload, "quantity",
                      QuantityText(call.args.quantity))

\* createGraph came back from a call without timezone and with
\* selfSufficient
C3_Witness ==
  /\ Returned("createGraph")
  /\ call.args.timezone = Undefined
  /\ call.args.selfSufficient = Str("UTC")

\* a query parameter has a value: it is neither undefined nor null
HasValue(v) == v.t = "string"

\* the query string of two optional parameters, in the order k1, k2
ExpectedQuery(k1, v1, k2, v2) ==
  IF HasValue(v1) /\ HasValue(v2)
    THEN "?" \o k1 \o "=" \o v1.s \o "&" \o k2 \o "=" \o v2.s
  ELSE IF HasValue(v1) THEN "?" \o k1 \o "=" \o v1.s
  ELSE IF HasValue(v2) THEN "?" \o k2 \o "=" \o v2.s
  ELSE ""

\* C4: the URL of getSvg and of getGraphPixelsDate is the resource URL
\* followed by "?" and key=value, joined with "&", for the parameters that
\* have a value, date before mode and from before to, the values as given;
\* it is the resource URL alone when no parameter has a value.
C4_QueryStringOfDefinedParameters ==
  /\ Returned("getSvg") =>
       request.url =
         "https://pixe.la/v1/users/" \o username \o "/graphs/"
           \o call.args.graphID
           \o ExpectedQuery("date", call.args.dateStr, "mode", call.args.mode)
  /\ Returned("getGraphPixelsDate") =>
       request.url =
         "https://pixe.la/v1/users/" \o username \o "/graphs/"
           \o call.args.graphID \o "/pixels"
           \o ExpectedQuery("from", call.args.fromDateStr,
                            "to", call.args.toDateStr)

\* getSvg came back from a call with a mode and without a date, and
\* getGraphPixelsDate from a call with both parameters
C4_Witness ==
  \/ /\ Returned("getSvg")
     /\ call.args.dateStr = Undefined
     /\ call.args.mode = Str("a&b=c")
     /\ request.url = "https://pixe.la/v1/users/bob/graphs/g2?mode=a&b=c"
  \/ /\ Returned("getGraphPixelsDate")
     /\ call.args.fromDateStr = Str("")
     /\ call.args.toDateStr = Str("a&b=c")

\* the URL of a pixel of the graph of the call that has just come back
PixelURL(segment) ==
  "https://pixe.la/v1/users/" \o username \o "/graphs/" \o call.args.graphID
    \o "/" \o segment

\* getPixel, updatePixel, incPixel, decPixel and deletePixel use the verb and
\* the URL .../graphs/{graphID}/{date|increment|decrement}
PixelOperationsOtherThanCreate ==
  /\ Returned("getPixel") =>
       request.url = PixelURL(call.args.dateStr)
         /\ Method(request) = Str("get")
  /\ Returned("updatePixel") =>
       request.url = PixelURL(call.args.dateStr)
         /\ Method(request) = Str("put")
  /\ Returned("incPixel") =>
       request.url = PixelURL("increment") /\ Method(request) = Str("put")
  /\ Returned("decPixel") =>
       request.url = PixelURL("decrement") /\ Method(request) = Str("put")
  /\ Returned("deletePixel") =>
       request.url = PixelURL(call.args.dateStr)
         /\ Method(request) = Str("delete")

\* C5, as stated: every pixel operation, createPixel included, sends its
\* request to .../graphs/{graphID}/{segment}, the segment of createPixel being
\* the date.
C5_AllPixelOperationsUseDetailURL ==
  /\ Returned("createPixel") =>
       request.url = PixelURL(call.args.dateStr)
         /\ Method(request) = Str("post")
  /\ PixelOperationsOtherThanCreate

\* C5, amended: createPixel POSTs to .../graphs/{graphID}, the date being a
\* key of the payload; the other pixel operations use
\* .../graphs/{graphID}/{date|increment|decrement} with GET, PUT, PUT, PUT
\* and DELETE.
C5_PixelOperationURLs ==
  /\ Returned("createPixel") =>
       /\ request.url = "https://pixe.la/v1/users/" \o username \o "/graphs/"
                          \o call.args.graphID
       /\ Method(request) = Str("post")
       /\ GetProp(request.payload, "date") = Str(call.args.dateStr)
  /\ PixelOperationsOtherThanCreate

\* createPixel and incPixel came back
C5_Witness ==
  \/ /\ Returned("createPixel")
     /\ request.url = "https://pixe.la/v1/users/alice/graphs/g1"
  \/ /\ Returned("incPixel")
     /\ request.url = "https://pixe.la/v1/users/alice/graphs/g1/increment"

\* the URL of the user of the client, followed by a path
UserURL(path) == "https://pixe.la/v1/users/" \o username \o path

\* the request that has just been issued has this verb and this URL
Sent(verb, url) == Method(request) = Str(verb) /\ request.url = url

\* C6: every user, graph and webhook operation uses the verb and the path of
\* the endpoint table, after https://pixe.la, with the username of the
\* construction.
C6_EndpointTable ==
  /\ username = log[1].user
  /\ Returned("createUser") => Sent("post", "https://pixe.la/v1/users")
  /\ Returned("updateUser") => Sent("put", UserURL(""))
  /\ Returned("deleteUser") => Sent("delete", UserURL(""))
  /\ Returned("createGraph") => Sent("post", UserURL("/graphs"))
  /\ Returned("getGraph") => Sent("get", UserURL("/graphs"))
  /\ Returned("updateGraph") =>
       Sent("put", UserURL("/graphs/" \o call.args.graphID))
  /\ Returned("deleteGraph") =>
       Sent("delete", UserURL("/graphs/" \o call.args.graphID))
  /\ Returned("getSvg") =>
       /\ Method(request) = Str("get")
       /\ call.args.dateStr = Undefined /\ call.args.mode = Undefined =>
            request.url = UserURL("/graphs/" \o call.args.graphID)
  /\ Returned("getGraphPixelsDate") =>
       /\ Method(request) = Str("get")
       /\ call.args.fromDateStr = Undefined /\ call.args.toDateStr = Undefined
            => request.url
                 = UserURL("/graphs/" \o call.args.graphID \o "/pixels")
  /\ Returned("createWebhook") => Sent("post", UserURL("/webhooks"))
  /\ Returned("getWebhook") => Sent("get", UserURL("/webhooks"))
  /\ Returned("invokeWebhook") =>
       Sent("post", UserURL("/webhooks/" \o call.args.webhookHash))
  /\ Returned("deleteWebhook") =>
       Sent("delete", UserURL("/webhooks/" \o call.args.webhookHash))

\* invokeWebhook came back, the second call of a client constructed for bob
C6_Witness ==
  /\ Returned("invokeWebhook")
  /\ Len(log) >= 3
  /\ request.url = "https://pixe.la/v1/users/bob/webhooks/h1"

\* C7: the request of every API call carries as X-USER-TOKEN the token the
\* client holds when the call is made.
C7_EveryRequestCarriesCurrentToken ==
  [][(pc = "idle" /\ pc' = "returned" /\ call'.op # "setToken") =>
       /\ fetches' >= 1
       /\ Occurrences(GetProp(request'.options, "headers"), "X-USER-TOKEN") = 1
       /\ AuthHeader(request') = Str(token)]_vars

\* a DELETE request was issued after the token was replaced
C7_Witness ==
  /\ Returned("deletePixel")
  /\ Method(request) = Str("delete")
  /\ AuthHeader(request) = Str(token)
  /\ log[1].token # Str(token)

\* a response with a non-2xx status and a well-formed JSON body has come back
ErrorResponse ==
  /\ pc = "returned"
  /\ call.op # "setToken"
  /\ ~response.fail
  /\ response.status \notin 200..299
  /\ response.text = "{\"message\":\"ng\",\"isSuccess\":false}"

\* the request was sent with HTTP exceptions muted
Muted == GetProp(request.options, "muteHttpExceptions") = Bool(TRUE)

\* the call returned an object with isSuccess false and the message
ReturnedFailureObject ==
  /\ result.kind = "return"
  /\ result.value.t = "object"
  /\ GetProp(result.value, "isSuccess") = Bool(FALSE)
  /\ GetProp(result.value, "message") = Str("ng")

\* C8, as stated: on a non-2xx response with a well-formed JSON body, every
\* operation returns the decoded body, an object with isSuccess false and
\* the message.
C8_EveryOperationReturnsDecodedError ==
  ErrorResponse => Muted /\ ReturnedFailureObject

\* C8, amended: on a non-2xx response with a well-formed JSON body no
\* operation throws and every request is muted; every operation but getSvg
\* returns the decoded body, an object with isSuccess false and the message;
\* getSvg returns the text of the body, not decoded.
C8_ErrorBodyIsReturnedNotThrown ==
  ErrorResponse =>
    /\ Muted
    /\ result.kind = "return"
    /\ IF call.op = "getSvg"
       THEN result.value = Str(response.text)
       ELSE ReturnedFailureObject

\* updatePixel came back with the decoded error body of a 400 response
C8_Witness ==
  /\ ErrorResponse
  /\ call.op = "updatePixel"
  /\ response.status = 400
  /\ ReturnedFailureObject

\* C9: an operation that decodes its response (any but getSvg) throws, and
\* returns nothing, when the body of the response is not JSON.
C9_MalformedBodyThrows ==
  (/\ pc = "returned"
   /\ call.op \notin {"setToken", "getSvg"}
   /\ ~response.fail
   /\ response.text \in {"<svg/>", "<html>Service Unavailable</html>"})
    => result = Throw("SyntaxError")

\* getPixel threw on a body that is not JSON
C9_Witness ==
  /\ Returned("getPixel")
  /\ response.text = "<svg/>"
  /\ result.kind = "throw"

\* C10: when UrlFetchApp.fetch fails, the operation throws that failure and
\* has called UrlFetchApp.fetch exactly once.
C10_FetchFailurePropagatesWithoutRetry ==
  (pc = "returned" /\ call.op # "setToken" /\ response.fail) =>
    result = Throw("fetch") /\ fetches = 1

\* createUser threw after one failed fetch
C10_Witness ==
  /\ Returned("createUser")
  /\ response.fail
  /\ result.kind = "throw"
  /\ fetches = 1

\* C11: a call of an API method has called UrlFetchApp.fetch exactly once
\* and added exactly one request to the log, whatever its arguments; a call
\* of setToken has called it not at all and added no request.
C11_ExactlyOneRequestPerCall ==
  [][(pc = "idle" /\ pc' = "returned") =>
       IF call'.op = "setToken"
       THEN /\ fetches' = 0
            /\ request' = NoRequest
            /\ Len(log') = Len(log) + 1
            /\ log'[Len(log')].ev = "setToken"
       ELSE /\ fetches' = 1
            /\ request' # NoRequest
            /\ Len(log') = Len(log) + 1
            /\ log'[Len(log')].ev = "request"
            /\ SubSeq(log', 1, Len(log)) = log]_vars

\* getSvg came back from a call without mode and with a date no server
\* accepts, and createGraph from a call without its optional parameters
C11_Witness ==
  \/ /\ Returned("getSvg")
     /\ call.args.dateStr = Str("a&b=c")
     /\ call.args.mode = Undefined
     /\ fetches = 1
  \/ /\ Returned("createGraph")
     /\ call.args.timezone = Undefined
     /\ call.args.selfSufficient = Undefined
     /\ fetches = 1

\* the Content-Type header of a request
ContentType(req) == GetProp(GetProp(req.options, "headers"), "Content-Type")

\* C12: a request sent by post or put has the header Content-Type:
\* application/json beside the auth header, and its body is the JSON text of
\* the payload object when there is one.
C12_MutatingRequestsAreJson ==
  (pc = "returned" /\ Method(request) \in {Str("post"), Str("put")}) =>
    /\ ContentType(request) = Str("application/json")
    /\ AuthHeader(request) = Str(token)
    /\ request.payload # Undefined =>
         Body(request) = Str(JSONtext(request.payload))
    /\ (Returned("updateUser") /\ call.args.newToken = "tok2") =>
         Body(request) = Str("{\"newToken\":\"tok2\"}")
    /\ (Returned("createWebhook") /\ call.args.graphID = "g2") =>
         Body(request) = Str("{\"graphID\":\"g2\",\"type\":\"increment\"}")
    /\ (Returned("createPixel") /\ call.args.quantity = 12
          /\ call.args.optionalData = Obj(<<Prop("memo", Str("a\"b"))>>)) =>
         Body(request) = Str("{\"date\":\"20210101\",\"quantity\":\"12\",\"optionalData\":\"{\\\"memo\\\":\\\"a\\\\\\\"b\\\"}\"}")
    /\ (Returned("createGraph") /\ call.args.graphID = "g1"
          /\ call.args.timezone = Null
          /\ call.args.selfSufficient = Str("UTC")) =>
         Body(request) = Str("{\"id\":\"g1\",\"name\":\"name\",\"unit\":\"commit\",\"type\":\"int\",\"color\":\"shibafu\",\"timezone\":null,\"selfSufficient\":\"UTC\"}")
    /\ (Returned("updateGraph")
          /\ call.args.payload
               = Obj(<<Prop("color", Str("sora")), Prop("unit", Undefined)>>))
         => Body(request) = Str("{\"color\":\"sora\"}")

\* createPixel came back from a call with optionalData, a PUT came back
C12_Witness ==
  \/ /\ Returned("createPixel")
     /\ call.args.quantity = 12
     /\ call.args.optionalData = Obj(<<Prop("memo", Str("a\"b"))>>)
     /\ Method(request) = Str("post")
  \/ /\ Returned("updateUser")
     /\ Method(request) = Str("put")

\* C13: getSvg returns the text of the body as it was received, whatever the
\* body, and throws only when the fetch failed.
C13_GetSvgReturnsBodyVerbatim ==
  Returned("getSvg") =>
    IF response.fail THEN result = Throw("fetch")
    ELSE result = Return(Str(response.text))

\* getSvg returned SVG markup, or an error page, as text
C13_Witness ==
  /\ Returned("getSvg")
  /\ response.text \in {"<svg/>", "<html>Service Unavailable</html>"}
  /\ result.kind = "return"
  /\ result.value = Str(response.text)

\* C14: the request of invokeWebhook is a POST whose payload option is
\* undefined: not a text, so neither "{}", "" nor "null".
C14_InvokeWebhookHasNoBody ==
  Returned("invokeWebhook") =>
    /\ Method(request) = Str("post")
    /\ request.payload = Undefined
    /\ Body(request) = Undefined

\* invokeWebhook came back, its single request sent
C14_Witness ==
  /\ Returned("invokeWebhook")
  /\ fetches = 1
  /\ request.url = "https://pixe.la/v1/users/alice/webhooks/h1"

\* a call of a method that decodes its response has come back with a body
DecodedCall(text) ==
  /\ pc = "returned"
  /\ call.op \notin {"setToken", "getSvg"}
  /\ ~response.fail
  /\ response.text = text

\* C16: a method that decodes its response returns the value the body
\* denotes and nothing else: the body {"message":"ok","isSuccess":true} gives
\* an object of these two fields with isSuccess true, and the body
\* {"pixels":["20210101","20210102"]} gives an object whose only field pixels
\* is the array of these two dates in this order.
C16_DecodedBodyReturnedUnchanged ==
  /\ DecodedCall("{\"message\":\"ok\",\"isSuccess\":true}") =>
       /\ result.kind = "return"
       /\ result.value.t = "object"
       /\ Keys(result.value) = {"message", "isSuccess"}
       /\ GetProp(result.value, "isSuccess") = Bool(TRUE)
       /\ GetProp(result.value, "message") = Str("ok")
  /\ DecodedCall("{\"pixels\":[\"20210101\",\"20210102\"]}") =>
       /\ result.kind = "return"
       /\ result.value.t = "object"
       /\ Keys(result.value) = {"pixels"}
       /\ GetProp(result.value, "pixels")
            = Arr(<<Str("20210101"), Str("20210102")>>)

\* getGraphPixelsDate returned the pixel history, deleteGraph a success
C16_Witness ==
  \/ /\ Returned("getGraphPixelsDate")
     /\ response.text = "{\"pixels\":[\"20210101\",\"20210102\"]}"
     /\ result.kind = "return"
  \/ /\ Returned("deleteGraph")
     /\ response.text = "{\"message\":\"ok\",\"isSuccess\":true}"
     /\ result.kind = "return"

\* C15: a setToken that runs while a call is inside its Client_ method
\* changes no Client_ object that exists, and the call's request carries the
\* token the client had when the call started.
C15_RotationLeavesInFlightCallAlone ==
  [][/\ \A i \in 1..Len(heap) : Len(heap') >= i /\ heap'[i] = heap[i]
     /\ (pc' \in {"fetching", "returned"} /\ held'.op # "none") =>
          AuthHeader(request') = Str(held'.startToken)]_vars

\* a call came back that started with one token and ended with another in
\* the client, its request carrying the first
C15_Witness ==
  /\ pc = "returned"
  /\ held.op # "none"
  /\ token # held.startToken
  /\ client # held.c
  /\ AuthHeader(request) = Str(held.startToken)

\* the URL of an operation, from the username, the operation and its
\* arguments alone
URLOf(u, op, a) ==
  LET user == "https://pixe.la/v1/users/" \o u
  IN CASE op = "createUser" -> "https://pixe.la/v1/users"
       [] op \in {"updateUser", "deleteUser"} -> user
       [] op \in {"createGraph", "getGraph"} -> user \o "/graphs"
       [] op \in {"updateGraph", "deleteGraph", "createPixel"} ->
            user \o "/graphs/" \o a.graphID
       [] op = "getSvg" ->
            user \o "/graphs/" \o a.graphID
              \o ExpectedQuery("date", a.dateStr, "mode", a.mode)
       [] op = "getGraphPixelsDate" ->
            user \o "/graphs/" \o a.graphID \o "/pixels"
              \o ExpectedQuery("from", a.fromDateStr, "to", a.toDateStr)
       [] op \in {"getPixel", "updatePixel", "deletePixel"} ->
            user \o "/graphs/" \o a.graphID \o "/" \o a.dateStr
       [] op = "incPixel" -> user \o "/graphs/" \o a.graphID \o "/increment"
       [] op = "decPixel" -> user \o "/graphs/" \o a.graphID \o "/decrement"
       [] op \in {"createWebhook", "getWebhook"} -> user \o "/webhooks"
       [] op \in {"invokeWebhook", "deleteWebhook"} ->
            user \o "/webhooks/" \o a.webhookHash

\* C17: the URL of every request is a function of the username of the
\* construction, the operation and its arguments; so two clients with the
\* same username and the same call send the same URL, whatever their tokens,
\* the calls they made before and the responses they got.
C17_URLDependsOnlyOnUsernameAndCall ==
  (pc = "returned" /\ call.op # "setToken") =>
    request.url = URLOf(log[1].user, call.op, call.args)

\* updateUser came back, as a later call of a client whose token was
\* replaced, with a failed fetch
C17_Witness ==
  /\ Returned("updateUser")
  /\ Len(log) >= 4
  /\ Str(token) # log[1].token
  /\ response.fail
  /\ request.url = "https://pixe.la/v1/users/bob"

\* C18: no step changes the username; the token, the transport reference
\* and the transport objects change only in a setToken call, which stores
\* its argument; an API call, updateUser included, leaves the token as it
\* is and sends it.
C18_OnlySetTokenChangesCredentials ==
  [][/\ username' = username
     /\ username' = log'[1].user
     /\ (token' # token \/ client' # client \/ heap' # heap) =>
          /\ pc = "idle" /\ pc' = "returned"
          /\ call'.op = "setToken"
          /\ token' = call'.args.token
     /\ (pc = "idle" /\ pc' = "returned" /\ call'.op = "updateUser") =>
          /\ token' = token
          /\ AuthHeader(request') = Str(token)]_vars

\* updateUser came back with a success for a new token that the client has
\* not stored
C18_Witness ==
  /\ Returned("updateUser")
  /\ call.args.newToken # token
  /\ result.kind = "return"
  /\ result.value.t = "object"
  /\ GetProp(result.value, "isSuccess") = Bool(TRUE)
  /\ AuthHeader(request) = Str(token)

\* C19: the token of the client is the token of its current transport; the
\* payload of createUser has that token, which is also the auth header of
\* the request, and the username of the construction.
C19_StoredTokenEqualsTransportToken ==
  /\ client \in 1..Len(heap)
  /\ heap[client].token = token
  /\ Returned("createUser") =>
       /\ GetProp(request.payload, "token") = AuthHeader(request)
       /\ GetProp(request.payload, "token") = Str(token)
       /\ GetProp(request.payload, "username") = Str(log[1].user)

\* createUser came back after the token was replaced
C19_Witness ==
  /\ Returned("createUser")
  /\ Str(token) # log[1].token
  /\ GetProp(request.payload, "token") = Str(token)
  /\ AuthHeader(request) = Str(token)

====
